---- MODULE Spec2Model ----
(***************************************************************************)
(* A model of the portfolio application of src/App.tsx: the search engine  *)
(* and the navigation state of the App component, the command interpreter  *)
(* of TerminalView, and the response pipeline of NeuralChatWidget.         *)
(*                                                                         *)
(* JavaScript strings are TLA+ strings; TLC evaluates Len, SubSeq and \o   *)
(* on them, so toLowerCase, trim and includes are computed character by    *)
(* character.  String literals are ASCII: the en dash of the year ranges   *)
(* of EDUCATION_HISTORY is written "-" (the year is never read by the      *)
(* modelled code).  The timestamp of a ChatMessage (Date.now()) is not     *)
(* modelled.                                                               *)
(***************************************************************************)
EXTENDS Naturals, Sequences, FiniteSets, TLC

VARIABLES
    store,          \* the Content Store the components read (constants module)
    activeView,     \* App: useState<ViewState>
    searchQuery,    \* App: useState('')
    searchResults,  \* App: useState({projects, education, skills})
    lastEvent,      \* the last event the App handled and the view before it (bookkeeping)
    appMounted,     \* the App component is mounted
    appTimers,      \* the running timers and loops of App, SystemFooter, NeuralBackground
    revealDelay,    \* RevealText: the setTimeout(.., delay) of the mounted instance is pending
    revealIntervals,\* RevealText: the running setInterval(.., 30) typing loops: [i, mounted]
    lastCallback,   \* the timer whose callback ran last (bookkeeping)
    history,        \* TerminalView: useState<string[]>; <<>> while unmounted
    termInput,      \* TerminalView: useState('') input line
    apiKey,         \* module constant: VITE_API_KEY || "demo_key"
    chatInput,      \* NeuralChatWidget: input
    loading,        \* NeuralChatWidget: loading
    messages,       \* NeuralChatWidget: messages
    isVoiceActive,  \* NeuralChatWidget: isVoiceActive
    audioOpen,      \* audio contexts created by the voice session and not closed
    micLive,        \* microphone streams obtained by getUserMedia and not stopped
    sessionSet,     \* sessionRef.current is set
    simTimer,       \* pending 600 ms timers of the offline branch: send ids, in order
    apiCall,        \* pending generateContent calls: set of send ids
    fallbackTimers, \* pending 1500 ms fallback timers: send ids, in the order set
    audioRefs,      \* inputAudioContextRef and audioContextRef hold contexts
    micRequest,     \* number of getUserMedia calls whose promise is still pending
    voiceClicks,    \* clicks on the voice button so far (bookkeeping)
    sends,          \* accepted sends so far: send id |-> [text, outcome] (bookkeeping)
    calledApi,      \* ids of the sends for which generateContent was called
    ignored         \* the send attempts that returned early: [input, loading] (bookkeeping)

timerVars == <<appMounted, appTimers, revealDelay, revealIntervals, lastCallback>>
appVars  == <<store, activeView, searchQuery, searchResults, lastEvent, timerVars>>
termVars == <<history, termInput>>
chatVars == <<apiKey, chatInput, loading, messages, isVoiceActive, audioOpen,
              micLive, sessionSet, simTimer, apiCall, fallbackTimers,
              audioRefs, micRequest, voiceClicks, sends, calledApi, ignored>>
vars     == <<appVars, termVars, chatVars>>

----------------------------------------------------------------------------
(* Bounds of the model *)

\* the terminal accepts a command only while the scrollback has at most this many lines
MaxHistory == 6
\* number of send attempts and voice-button clicks, together, in one behaviour
MaxClicks == 3
\* number of typing intervals of RevealText that run at the same time
MaxReveals == 1

----------------------------------------------------------------------------
(* JavaScript string operations *)

UpperCase == <<"A","B","C","D","E","F","G","H","I","J","K","L","M",
               "N","O","P","Q","R","S","T","U","V","W","X","Y","Z">>
LowerCase == <<"a","b","c","d","e","f","g","h","i","j","k","l","m",
               "n","o","p","q","r","s","t","u","v","w","x","y","z">>

\* one character of String.prototype.toLowerCase
LowerChar(c) ==
    IF \E i \in 1..26 : UpperCase[i] = c
    THEN LowerCase[CHOOSE i \in 1..26 : UpperCase[i] = c]
    ELSE c

\* the characters lo..hi of s in lower case (halving keeps the evaluation shallow)
RECURSIVE LowerRange(_, _, _)
LowerRange(s, lo, hi) ==
    IF lo > hi THEN ""
    ELSE IF lo = hi THEN LowerChar(SubSeq(s, lo, lo))
    ELSE LET mid == (lo + hi) \div 2
         IN  LowerRange(s, lo, mid) \o LowerRange(s, mid + 1, hi)


\* String.prototype.includes: q occurs in s as a contiguous substring
includes(s, q) ==
    \E i \in 0..Len(s) :
        /\ i + Len(q) <= Len(s)
        /\ SubSeq(s, i + 1, i + Len(q)) = q

WhiteSpace == {" ", "\t"}

\* String.prototype.trim
trim(s) ==
    IF \A i \in 1..Len(s) : SubSeq(s, i, i) \in WhiteSpace THEN ""
    ELSE LET first == CHOOSE i \in 1..Len(s) :
                          /\ SubSeq(s, i, i) \notin WhiteSpace
                          /\ \A j \in 1..(i - 1) : SubSeq(s, j, j) \in WhiteSpace
             last  == CHOOSE i \in 1..Len(s) :
                          /\ SubSeq(s, i, i) \notin WhiteSpace
                          /\ \A j \in (i + 1)..Len(s) : SubSeq(s, j, j) \in WhiteSpace
         IN  SubSeq(s, first, last)

\* Array.prototype.filter on a sequence, by a predicate on the element
RECURSIVE FilterFrom(_, _, _)
FilterFrom(seq, keep, i) ==
    IF i > Len(seq) THEN << >>
    ELSE (IF keep[i] THEN << seq[i] >> ELSE << >>) \o FilterFrom(seq, keep, i + 1)

----------------------------------------------------------------------------
(* The Content Store: constants module *)

RESUME_DATA ==
    [ name     |-> "Anubhav Kumar",
      title    |-> "M.Tech | AI Researcher & Frontend Engineer",
      email    |-> "anubhavfarswal@gmail.com",
      phone    |-> "6398011321",
      location |-> "New Delhi, Delhi, 110045, IN",
      linkedin |-> "Anubhav Kumar",
      summary  |-> "M.Tech candidate at Bennett University bridging Machine Learning research with Front-End development. I specialize in integrating complex Transformer models into responsive web interfaces, creating seamless, end-to-end applications that make advanced data intelligence accessible and user-friendly." ]

PROJECTS ==
    << [ title       |-> "High-Precision Textual Verification System",
         type        |-> "AI / BERT-Family Models",
         description |-> "Designed a high-precision verification system leveraging BERT, ROBERTa, and DeBERTa for advanced text classification. Integrated these Transformer models into a responsive front-end interface, enabling real-time credibility assessment and seamless user interaction.",
         tech        |-> << "BERT", "ROBERTa", "Python", "React", "ML" >> ],
       [ title       |-> "End-to-End Neural Text Analytics Platform",
         type        |-> "Full Stack / Real-Time UI",
         description |-> "Developed an end-to-end platform using BERT and ROBERTa for advanced text analytics. Engineered a real-time, responsive UI to visualize model insights, effectively bridging complex ML back ends with intuitive front-end design.",
         tech        |-> << "Neural Networks", "Data Viz", "TypeScript", "UI/UX" >> ],
       [ title       |-> "Cross-Platform Component Library",
         type        |-> "Frontend Infrastructure",
         description |-> "Developed a library of reusable, responsive UI components optimized for high-volume data visualization. Built to ensure seamless performance across platforms, providing a consistent interface for complex analytical outputs.",
         tech        |-> << "React", "Component Lib", "Performance", "Design System" >> ] >>

EDUCATION_HISTORY ==
    << [ degree  |-> "Master of Technology (M.Tech)",
         school  |-> "Bennett University",
         year    |-> "08/2024 - Present",
         score   |-> "GPA: 7.74",
         details |-> << "Specialization in Computer Science Engineering",
                        "Research focus: Neural Networks & Transformer Models",
                        "Advanced AI Algorithms & Implementation" >> ],
       [ degree  |-> "Master of Computer Applications",
         school  |-> "Chandigarh University",
         year    |-> "2022 - 2024",
         score   |-> "GPA: 6.91",
         details |-> << "Core Computing & Software Architectures",
                        "Full Stack Development Methodologies",
                        "Cloud Computing & Database Systems" >> ],
       [ degree  |-> "B.Sc. in Computer Science (Honours)",
         school  |-> "Meerut college",
         year    |-> "2018 - 2021",
         score   |-> "GPA: 6.14",
         details |-> << "Foundations of Computer Science",
                        "Data Structures & Algorithms Analysis",
                        "System Programming & OS Concepts" >> ] >>

CERTIFICATES ==
    << [ name |-> "Digital Image & Video Processing",    icon |-> "image" ],
       [ name |-> "Generative AI: Intro & Applications", icon |-> "psychology" ],
       [ name |-> "Databases & SQL for Data Science",    icon |-> "database" ],
       [ name |-> "Computer Networks Security",          icon |-> "security" ],
       [ name |-> "NLP with Classification",             icon |-> "translate" ],
       [ name |-> "Python Data Structures",              icon |-> "code" ] >>

SKILL_METRICS ==
    << [ subject |-> "Python (AI)",  A |-> 95, fullMark |-> 100 ],
       [ subject |-> "C++",          A |-> 80, fullMark |-> 100 ],
       [ subject |-> "Java",         A |-> 75, fullMark |-> 100 ],
       [ subject |-> "Node.js",      A |-> 85, fullMark |-> 100 ],
       [ subject |-> "JS / TS",      A |-> 90, fullMark |-> 100 ],
       [ subject |-> "React / Next", A |-> 92, fullMark |-> 100 ],
       [ subject |-> "HTML / CSS",   A |-> 95, fullMark |-> 100 ],
       [ subject |-> "Dart",         A |-> 70, fullMark |-> 100 ],
       [ subject |-> "Git",          A |-> 88, fullMark |-> 100 ] >>

INTERESTS ==
    << "AI Research", "UI/UX Trends", "Strategic Gaming", "Open-Source", "Traveling" >>

\* the store of the repository
RepoStore ==
    [ profile      |-> RESUME_DATA,
      projects     |-> PROJECTS,
      education    |-> EDUCATION_HISTORY,
      certificates |-> CERTIFICATES,
      skills       |-> SKILL_METRICS,
      interests    |-> INTERESTS ]

\* CORE_SKILLS = SKILL_METRICS.map(s => s.subject)
CORE_SKILLS(skills) == [ i \in 1..Len(skills) |-> skills[i].subject ]

\* A second store of the types of types.ts, for the search engine only: an
\* Education entry without the optional details field, fields that share words
\* across categories, and words that occur only in fields the search skips.
SampleStore ==
    [ profile      |-> RESUME_DATA,
      projects     |-> << [ title       |-> "Alpha System",
                            type        |-> "Gamma Tool",
                            description |-> "A parser",
                            tech        |-> << "X", "Y" >> ],
                          [ title       |-> "Beta",
                            type        |-> "Library",
                            description |-> "Uses alpha blending",
                            tech        |-> << >> ] >>,
      education    |-> << [ degree |-> "Diploma in Alpha Studies",
                            school |-> "Delta School",
                            year   |-> "2001 - 2002",
                            score  |-> "GPA: 9" ],
                          [ degree  |-> "Certificate",
                            school  |-> "Beta Institute",
                            year    |-> "2003",
                            score   |-> "Pass",
                            details |-> << "Thesis on X" >> ] >>,
      certificates |-> << [ name |-> "Omega", icon |-> "code" ] >>,
      skills       |-> << [ subject |-> "Y-lang", A |-> 50, fullMark |-> 100 ],
                          [ subject |-> "Alpha",  A |-> 60, fullMark |-> 100 ] >>,
      interests    |-> << "Sigma" >> ]

Stores == { RepoStore, SampleStore }

\* the strings of a store that the search lowercases
SearchedStrings(st) ==
    UNION { { st.projects[i].title, st.projects[i].description }
            \cup { st.projects[i].tech[k] : k \in 1..Len(st.projects[i].tech) }
            : i \in 1..Len(st.projects) }
    \cup UNION { { st.education[i].degree, st.education[i].school }
               \cup ( IF "details" \in DOMAIN st.education[i]
                      THEN { st.education[i].details[k] :
                                 k \in 1..Len(st.education[i].details) }
                      ELSE { } )
               : i \in 1..Len(st.education) }
    \cup { st.skills[i].subject : i \in 1..Len(st.skills) }

\* the lower-case forms of the strings of the stores, computed once
LowerOfStored ==
    LET strings == UNION { SearchedStrings(st) : st \in Stores }
        pairs   == { << s, LowerRange(s, 1, Len(s)) >> : s \in strings }
    IN  [ s \in strings |-> (CHOOSE p \in pairs : p[1] = s)[2] ]

\* String.prototype.toLowerCase
toLowerCase(s) ==
    IF s \in DOMAIN LowerOfStored THEN LowerOfStored[s] ELSE LowerRange(s, 1, Len(s))

----------------------------------------------------------------------------
(* App: search engine and navigation *)

PROFILE   == "PROFILE"
PROJECTS_VIEW == "PROJECTS"
EDUCATION == "EDUCATION"
SKILLS    == "SKILLS"
TERMINAL  == "TERMINAL"
SEARCH    == "SEARCH"

\* enum ViewState
ViewState == { PROFILE, PROJECTS_VIEW, EDUCATION, SKILLS, TERMINAL, SEARCH }

\* the views that have a NavButton in the sidebar
NavTargets == { PROFILE, PROJECTS_VIEW, EDUCATION, SKILLS, TERMINAL }

\* ProjectMatches as it would be if the filter also looked at the type label
ProjectMatches_withType(p, lowerQuery) ==
    \/ includes(toLowerCase(p.title), lowerQuery)
    \/ includes(toLowerCase(p.description), lowerQuery)
    \/ includes(toLowerCase(p.type), lowerQuery)
    \/ \E k \in 1..Len(p.tech) : includes(toLowerCase(p.tech[k]), lowerQuery)

\* the predicate of PROJECTS.filter in handleSearch
ProjectMatches(p, lowerQuery) ==
    \/ includes(toLowerCase(p.title), lowerQuery)
    \/ includes(toLowerCase(p.description), lowerQuery)
    \/ \E k \in 1..Len(p.tech) : includes(toLowerCase(p.tech[k]), lowerQuery)

\* the predicate of EDUCATION_HISTORY.filter in handleSearch; edu.details?.some(..)
\* is undefined, hence falsy, for an entry without details
EducationMatches(edu, lowerQuery) ==
    \/ includes(toLowerCase(edu.degree), lowerQuery)
    \/ includes(toLowerCase(edu.school), lowerQuery)
    \/ /\ "details" \in DOMAIN edu
       /\ \E k \in 1..Len(edu.details) : includes(toLowerCase(edu.details[k]), lowerQuery)

\* the predicate of SKILL_METRICS.filter in handleSearch
SkillMatches(s, lowerQuery) ==
    includes(toLowerCase(s.subject), lowerQuery)

\* the three filters of handleSearch
SearchStore(query, st) ==
    LET lowerQuery == toLowerCase(query)
    IN  [ projects  |-> FilterFrom(st.projects,
                            [ i \in 1..Len(st.projects) |->
                                  ProjectMatches(st.projects[i], lowerQuery) ], 1),
          education |-> FilterFrom(st.education,
                            [ i \in 1..Len(st.education) |->
                                  EducationMatches(st.education[i], lowerQuery) ], 1),
          skills    |-> FilterFrom(st.skills,
                            [ i \in 1..Len(st.skills) |->
                                  SkillMatches(st.skills[i], lowerQuery) ], 1) ]

\* useState of TerminalView
InitialHistory ==
    << "> SYSTEM INITIALIZED", "> WELCOME TO NEURAL CLI V1.0", "> TYPE \"help\" FOR COMMANDS" >>

\* the text and the delay ProfileView passes to RevealText
RevealQuote ==
    "Intelligence is not just about the model's accuracy, but the clarity with which it is presented to the user."

\* RevealText, the effect: setTimeout(.., delay) is set when the component mounts
RevealTextMount ==
    /\ revealDelay' = TRUE
    /\ UNCHANGED revealIntervals

\* RevealText, the cleanup of the effect: clearTimeout(startDelay). The function
\* the timeout callback returns, () => clearInterval(interval), is returned to
\* setTimeout, which drops it: a typing loop that has started keeps running
RevealTextUnmount ==
    /\ revealDelay' = FALSE
    /\ revealIntervals' =
           [ k \in 1..Len(revealIntervals) |->
                 [ revealIntervals[k] EXCEPT !.mounted = FALSE ] ]

\* renderContent as it would be if TerminalView stayed mounted, hidden, while
\* another view is shown
renderContent_keepsTerminal(newView) ==
    /\ IF newView = TERMINAL
       THEN IF activeView = TERMINAL \/ history # << >>
            THEN UNCHANGED termVars
            ELSE history' = InitialHistory /\ termInput' = ""
       ELSE UNCHANGED termVars
    /\ IF activeView = PROFILE /\ newView # PROFILE
       THEN RevealTextUnmount
       ELSE IF activeView # PROFILE /\ newView = PROFILE
            THEN RevealTextMount
            ELSE UNCHANGED <<revealDelay, revealIntervals>>
    /\ UNCHANGED <<appMounted, appTimers, lastCallback>>

\* renderContent: <div key={activeView}> holds TerminalView only while the active
\* view is TERMINAL; a change of the view unmounts the old content and mounts the
\* new, so the state of TerminalView starts afresh when the view becomes TERMINAL
\* and is dropped when it stops being TERMINAL. In the same way ProfileView, and
\* the RevealText in it, is mounted while the active view is PROFILE.
renderContent(newView) ==
    /\ IF newView = TERMINAL
       THEN IF activeView = TERMINAL
            THEN UNCHANGED termVars
            ELSE history' = InitialHistory /\ termInput' = ""
       ELSE history' = << >> /\ termInput' = ""
    /\ IF activeView = PROFILE /\ newView # PROFILE
       THEN RevealTextUnmount
       ELSE IF activeView # PROFILE /\ newView = PROFILE
            THEN RevealTextMount
            ELSE UNCHANGED <<revealDelay, revealIntervals>>
    /\ UNCHANGED <<appMounted, appTimers, lastCallback>>

\* SearchResultsView: the screen it renders for a query and a result set
SearchResultsView(results, query) ==
    IF query = "" THEN "placeholder"
    ELSE IF \/ Len(results.projects) > 0
            \/ Len(results.education) > 0
            \/ Len(results.skills) > 0
         THEN "results"
         ELSE "noResults"

\* the record of an event of the App: the handler, its argument, the view before
Event(op, arg) == [ op |-> op, arg |-> arg, from |-> activeView ]

\* the values typed or pasted into the search bar
SearchQueries ==
    { "", " ", "bert", "BERT", " React", "python", "neural", "frontend infrastructure",
      "2024", "gpa", "image", "gaming", "alpha", "X", "gamma", "delta", "zzz" }

\* handleSearch as it would be without setActiveView(ViewState.SEARCH)
handleSearch_keepsView(query) ==
    /\ query # searchQuery
    /\ searchQuery' = query
    /\ IF trim(query) = ""
       THEN /\ activeView' = IF activeView = SEARCH THEN PROFILE ELSE activeView
            /\ UNCHANGED searchResults
       ELSE /\ activeView' = activeView
            /\ searchResults' = SearchStore(query, store)
    /\ renderContent(activeView')
    /\ lastEvent' = Event("handleSearch", query)
    /\ UNCHANGED <<store, chatVars>>

\* handleSearch as it would be if the empty query set the Profile view from every
\* view
handleSearch_alwaysProfile(query) ==
    /\ query # searchQuery
    /\ searchQuery' = query
    /\ IF trim(query) = ""
       THEN /\ activeView' = IF query = "" \/ activeView = SEARCH
                             THEN PROFILE ELSE activeView
            /\ UNCHANGED searchResults
       ELSE /\ activeView' = SEARCH
            /\ searchResults' = SearchStore(query, store)
    /\ renderContent(activeView')
    /\ lastEvent' = Event("handleSearch", query)
    /\ UNCHANGED <<store, chatVars>>

\* handleSearch as it would be with query === '' in place of query.trim() === ''
handleSearch_noTrim(query) ==
    /\ query # searchQuery
    /\ searchQuery' = query
    /\ IF query = ""
       THEN /\ activeView' = IF activeView = SEARCH THEN PROFILE ELSE activeView
            /\ UNCHANGED searchResults
       ELSE /\ activeView' = SEARCH
            /\ searchResults' = SearchStore(query, store)
    /\ renderContent(activeView')
    /\ lastEvent' = Event("handleSearch", query)
    /\ UNCHANGED <<store, chatVars>>

\* handleSearch as it would be if a blank query emptied the stored result set
handleSearch_resetsResults(query) ==
    /\ query # searchQuery
    /\ searchQuery' = query
    /\ IF trim(query) = ""
       THEN /\ activeView' = IF activeView = SEARCH THEN PROFILE ELSE activeView
            /\ searchResults' = [ projects |-> << >>, education |-> << >>, skills |-> << >> ]
       ELSE /\ activeView' = SEARCH
            /\ searchResults' = SearchStore(query, store)
    /\ renderContent(activeView')
    /\ lastEvent' = Event("handleSearch", query)
    /\ UNCHANGED <<store, chatVars>>

\* handleNavClick as it would be without setSearchQuery('')
handleNavClick_keepQuery(view) ==
    /\ view # activeView
    /\ activeView' = view
    /\ UNCHANGED searchQuery
    /\ renderContent(view)
    /\ lastEvent' = Event("handleNavClick", view)
    /\ UNCHANGED <<store, searchResults, chatVars>>

\* onChange of the search bar
handleSearch(query) ==
    /\ query # searchQuery
    /\ searchQuery' = query
    /\ IF trim(query) = ""
       THEN /\ activeView' = IF activeView = SEARCH THEN PROFILE ELSE activeView
            /\ UNCHANGED searchResults
       ELSE /\ activeView' = SEARCH
            /\ searchResults' = SearchStore(query, store)
    /\ renderContent(activeView')
    /\ lastEvent' = Event("handleSearch", query)
    /\ UNCHANGED <<store, chatVars>>

\* onClick of a NavButton
handleNavClick(view) ==
    /\ view # activeView
    /\ activeView' = view
    /\ searchQuery' = ""
    /\ renderContent(view)
    /\ lastEvent' = Event("handleNavClick", view)
    /\ UNCHANGED <<store, searchResults, chatVars>>

\* SearchResultsView: the 'Return to Profile' button of the no-results screen,
\* onViewChange = setActiveView
ReturnToProfile ==
    /\ activeView = SEARCH
    /\ searchQuery # ""
    /\ Len(searchResults.projects) = 0
    /\ Len(searchResults.education) = 0
    /\ Len(searchResults.skills) = 0
    /\ activeView' = PROFILE
    /\ renderContent(PROFILE)
    /\ lastEvent' = Event("ReturnToProfile", PROFILE)
    /\ UNCHANGED <<store, searchQuery, searchResults, chatVars>>

----------------------------------------------------------------------------
(* TerminalView: the command interpreter *)

\* the lines typed into the terminal while the search bar is in use as well
FewTermLines == { "ls", "  CLEAR " }

\* the lines typed into the terminal
TermLines ==
    { "", "help", "ls", " Ls", "whoami", "skills", "contact", "clear", "  CLEAR ",
      "frobnicate" }

\* onChange of the terminal input
TermType(line) ==
    /\ activeView = TERMINAL
    /\ line # termInput
    /\ termInput' = line
    /\ UNCHANGED <<appVars, history, chatVars>>

\* decimal digits of an index of PROJECTS.forEach
Digit(i) == SubSeq("0123456789", i + 1, i + 1)

\* LsOutput as it would be without the 'PROJECTS DIRECTORY:' header line
LsOutput_noHeader(st) ==
    [ i \in 1..Len(st.projects) |->
          "  [" \o Digit(i - 1) \o "] " \o st.projects[i].title
                \o " (" \o st.projects[i].type \o ")" ]

\* case 'ls': the header and one line per project
LsOutput(st) ==
    << "PROJECTS DIRECTORY:" >> \o
    [ i \in 1..Len(st.projects) |->
          "  [" \o Digit(i - 1) \o "] " \o st.projects[i].title
                \o " (" \o st.projects[i].type \o ")" ]

\* ErrorOutput as it would be if an empty line were skipped silently
ErrorOutput_silentOnEmpty(cmd) ==
    IF cmd = "" THEN << >>
    ELSE << "ERROR: Command \"" \o cmd \o "\" not recognized. Type \"help\"." >>

\* default: the error line
ErrorOutput(cmd) ==
    << "ERROR: Command \"" \o cmd \o "\" not recognized. Type \"help\"." >>

\* the output lines of a command other than clear, in the order they are pushed
CommandOutput(cmd, st) ==
    CASE cmd = "help" ->
           << "AVAILABLE COMMANDS:",
              "  ls        - List all projects",
              "  whoami    - Display profile summary",
              "  skills    - List core competencies",
              "  contact   - Display contact info",
              "  clear     - Clear terminal" >>
      [] cmd = "ls" -> LsOutput(st)
      [] cmd = "whoami" ->
           << "USER: " \o st.profile.name,
              "TITLE: " \o st.profile.title,
              "BIO: " \o st.profile.summary >>
      [] cmd = "skills" ->
           << "CORE SKILLS:" >> \o
           [ i \in 1..Len(st.skills) |-> "  - " \o CORE_SKILLS(st.skills)[i] ]
      [] cmd = "contact" ->
           << "EMAIL: " \o st.profile.email,
              "PHONE: " \o st.profile.phone,
              "LOC: " \o st.profile.location >>
      [] OTHER -> ErrorOutput(cmd)

\* handleCommand as it would be if the line were lowercased but not trimmed
handleCommand_noTrim ==
    /\ activeView = TERMINAL
    /\ Len(history) <= MaxHistory
    /\ LET cmd        == toLowerCase(termInput)
           newHistory == Append(history, "> " \o termInput)
       IN  IF cmd = "clear"
           THEN history' = << "> CONSOLE CLEARED" >>
           ELSE history' = newHistory \o CommandOutput(cmd, store)
    /\ termInput' = ""
    /\ UNCHANGED <<appVars, chatVars>>

\* handleCommand as it would be with input.trim() in place of
\* input.trim().toLowerCase()
handleCommand_noLowerCase ==
    /\ activeView = TERMINAL
    /\ Len(history) <= MaxHistory
    /\ LET cmd        == trim(termInput)
           newHistory == Append(history, "> " \o termInput)
       IN  IF cmd = "clear"
           THEN history' = << "> CONSOLE CLEARED" >>
           ELSE history' = newHistory \o CommandOutput(cmd, store)
    /\ termInput' = ""
    /\ UNCHANGED <<appVars, chatVars>>

\* handleCommand as it would be if the echo showed the normalized command
handleCommand_echoNormalized ==
    /\ activeView = TERMINAL
    /\ Len(history) <= MaxHistory
    /\ LET cmd        == toLowerCase(trim(termInput))
           newHistory == Append(history, "> " \o cmd)
       IN  IF cmd = "clear"
           THEN history' = << "> CONSOLE CLEARED" >>
           ELSE history' = newHistory \o CommandOutput(cmd, store)
    /\ termInput' = ""
    /\ UNCHANGED <<appVars, chatVars>>

\* handleCommand as it would be if newHistory started from [] instead of [...history]
handleCommand_dropsHistory ==
    /\ activeView = TERMINAL
    /\ Len(history) <= MaxHistory
    /\ LET cmd        == toLowerCase(trim(termInput))
           newHistory == << "> " \o termInput >>
       IN  IF cmd = "clear"
           THEN history' = << "> CONSOLE CLEARED" >>
           ELSE history' = newHistory \o CommandOutput(cmd, store)
    /\ termInput' = ""
    /\ UNCHANGED <<appVars, chatVars>>

\* onKeyDown of the terminal input with e.key === 'Enter'
handleCommand ==
    /\ activeView = TERMINAL
    /\ Len(history) <= MaxHistory
    /\ LET cmd        == toLowerCase(trim(termInput))
           newHistory == Append(history, "> " \o termInput)
       IN  IF cmd = "clear"
           THEN history' = << "> CONSOLE CLEARED" >>
           ELSE history' = newHistory \o CommandOutput(cmd, store)
    /\ termInput' = ""
    /\ UNCHANGED <<appVars, chatVars>>

----------------------------------------------------------------------------
(* NeuralChatWidget: the assistant response pipeline *)

DEMO_KEY == "demo_key"

\* import.meta.env?.VITE_API_KEY: "" stands for a missing or empty variable
EnvValues == { "", "demo_key", "AIza-live-key" }

\* const apiKey = import.meta.env?.VITE_API_KEY || "demo_key"
ApiKeyOf(env) == IF env = "" THEN DEMO_KEY ELSE env

USER  == "user"
MODEL == "model"

\* a ChatMessage; send is the id of the send a message belongs to (0: none)
Msg(role, text, send) == [ role |-> role, text |-> text, send |-> send ]

\* useState of messages
Greeting ==
    Msg(MODEL, "Neural Link Established. I am Anubhav's automated assistant. Ask me about his projects, skills, or research.", 0)

ProjectsReply ==
    "Anubhav has worked on key projects like the High-Precision Textual Verification System using BERT/RoBERTa and a Cross-Platform Component Library."
SkillsReply ==
    "Core competencies include Python (AI), React, Node.js, and Transformer models (BERT, RoBERTa)."
ContactReply == "You can reach Anubhav at " \o RESUME_DATA.email \o "."
HelloReply == "Greetings. Accessing local database..."
OfflineReply ==
    "I am currently running in offline mode. I can answer basic questions about projects and skills, but live generative capabilities are disabled."
CorruptedReply == "Data corrupted. Please retry."

\* getSimulationResponse as it would be without query.toLowerCase()
getSimulationResponse_noLowerCase(query) ==
    LET lowerInput == query
    IN  IF includes(lowerInput, "project") THEN ProjectsReply
        ELSE IF includes(lowerInput, "skill") \/ includes(lowerInput, "tech")
             THEN SkillsReply
        ELSE IF includes(lowerInput, "contact") \/ includes(lowerInput, "email")
             THEN ContactReply
        ELSE IF includes(lowerInput, "hello") \/ includes(lowerInput, "hi")
             THEN HelloReply
        ELSE OfflineReply

\* getSimulationResponse as it would be if the skill group were tested first
getSimulationResponse_skillFirst(query) ==
    LET lowerInput == toLowerCase(query)
    IN  IF includes(lowerInput, "skill") \/ includes(lowerInput, "tech")
        THEN SkillsReply
        ELSE IF includes(lowerInput, "project") THEN ProjectsReply
        ELSE IF includes(lowerInput, "contact") \/ includes(lowerInput, "email")
             THEN ContactReply
        ELSE IF includes(lowerInput, "hello") \/ includes(lowerInput, "hi")
             THEN HelloReply
        ELSE OfflineReply

\* the offline responder
getSimulationResponse(query) ==
    LET lowerInput == toLowerCase(query)
    IN  IF includes(lowerInput, "project") THEN ProjectsReply
        ELSE IF includes(lowerInput, "skill") \/ includes(lowerInput, "tech")
             THEN SkillsReply
        ELSE IF includes(lowerInput, "contact") \/ includes(lowerInput, "email")
             THEN ContactReply
        ELSE IF includes(lowerInput, "hello") \/ includes(lowerInput, "hi")
             THEN HelloReply
        ELSE OfflineReply

\* the texts typed into the chat input
ChatTexts ==
    { "", "  ", "What are your skills?", "Email the PROJECT skills" }

\* texts for the offline responder: one keyword, several keywords of different
\* groups, a keyword inside another word, upper case, and no keyword at all
ReplyTexts ==
    { "Show me a PROJECT", "Your Tech stack and email", "contact: say hello",
      "Which one?", "What is the weather?", "hello, any projects?" }

\* the texts response.response.text() returns when the endpoint answers
ApiReplies == { "Data retrieved.", "" }

\* onChange of the chat input (the input is disabled while the voice session is active)
ChatType(text) ==
    /\ ~isVoiceActive
    /\ text # chatInput
    /\ chatInput' = text
    /\ UNCHANGED <<appVars, termVars, apiKey, loading, messages, isVoiceActive,
                   audioOpen, micLive, sessionSet, simTimer, apiCall, fallbackTimers,
                   audioRefs, micRequest, voiceClicks, sends, calledApi, ignored>>

\* SendIgnored as it would be with !input in place of !input.trim()
SendIgnored_noTrim == chatInput = "" \/ loading

\* if (!input.trim() || loading) return
SendIgnored == trim(chatInput) = "" \/ loading

\* handleSend up to its first suspension: Enter in the input or a click on the send
\* button (neither is possible while the voice session is active)
handleSend ==
    /\ ~isVoiceActive
    /\ Len(sends) + voiceClicks + Len(ignored) < MaxClicks
    /\ IF SendIgnored
       THEN /\ ignored' = Append(ignored, [ input |-> chatInput, loading |-> loading ])
            /\ UNCHANGED <<chatInput, loading, messages, simTimer, apiCall, sends,
                           calledApi>>
       ELSE LET id == Len(sends) + 1
            IN  /\ UNCHANGED ignored
                /\ sends' = Append(sends, [ text |-> chatInput, outcome |-> "pending" ])
                /\ messages' = Append(messages, Msg(USER, chatInput, id))
                /\ chatInput' = ""
                /\ loading' = TRUE
                /\ IF apiKey = DEMO_KEY
                   THEN /\ simTimer' = Append(simTimer, id)
                        /\ UNCHANGED <<apiCall, calledApi>>
                   ELSE /\ apiCall' = apiCall \cup { id }
                        /\ calledApi' = calledApi \cup { id }
                        /\ UNCHANGED simTimer
    /\ UNCHANGED <<appVars, termVars, apiKey, isVoiceActive, audioOpen, micLive,
                   sessionSet, fallbackTimers, audioRefs, micRequest, voiceClicks>>

\* SimTimerFires as it would be if the callback read the input state, which the
\* send has cleared, instead of userMsg.text
SimTimerFires_stateInput ==
    /\ simTimer # << >>
    /\ LET id    == Head(simTimer)
           reply == getSimulationResponse(chatInput)
       IN  /\ messages' = Append(messages, Msg(MODEL, reply, id))
           /\ sends' = [ sends EXCEPT ![id].outcome = "offline" ]
    /\ loading' = FALSE
    /\ simTimer' = Tail(simTimer)
    /\ UNCHANGED <<appVars, termVars, apiKey, chatInput, isVoiceActive, audioOpen,
                   micLive, sessionSet, apiCall, fallbackTimers, audioRefs,
                   micRequest, voiceClicks, calledApi, ignored>>

\* the callback of setTimeout(.., 600) of the offline branch
SimTimerFires ==
    /\ simTimer # << >>
    /\ LET id    == Head(simTimer)
           reply == getSimulationResponse(sends[id].text)
       IN  /\ messages' = Append(messages, Msg(MODEL, reply, id))
           /\ sends' = [ sends EXCEPT ![id].outcome = "offline" ]
    /\ loading' = FALSE
    /\ simTimer' = Tail(simTimer)
    /\ UNCHANGED <<appVars, termVars, apiKey, chatInput, isVoiceActive, audioOpen,
                   micLive, sessionSet, apiCall, fallbackTimers, audioRefs,
                   micRequest, voiceClicks, calledApi, ignored>>

\* ApiReturns as it would be without the || "Data corrupted. Please retry." default
ApiReturns_noDefault(id, text) ==
    /\ id \in apiCall
    /\ messages' = Append(messages, Msg(MODEL, text, id))
    /\ sends' = [ sends EXCEPT ![id].outcome = IF text # "" THEN "ok" ELSE "empty" ]
    /\ loading' = FALSE
    /\ apiCall' = apiCall \ { id }
    /\ UNCHANGED <<appVars, termVars, apiKey, chatInput, isVoiceActive, audioOpen,
                   micLive, sessionSet, simTimer, fallbackTimers, audioRefs,
                   micRequest, voiceClicks, calledApi, ignored>>

\* handleSend after await model.generateContent: the endpoint answered with text
\* (text is "" when the text is empty or response.response is missing)
ApiReturns(id, text) ==
    /\ id \in apiCall
    /\ LET reply == IF text # "" THEN text ELSE CorruptedReply
       IN  messages' = Append(messages, Msg(MODEL, reply, id))
    /\ sends' = [ sends EXCEPT ![id].outcome = IF text # "" THEN "ok" ELSE "empty" ]
    /\ loading' = FALSE
    /\ apiCall' = apiCall \ { id }
    /\ UNCHANGED <<appVars, termVars, apiKey, chatInput, isVoiceActive, audioOpen,
                   micLive, sessionSet, simTimer, fallbackTimers, audioRefs,
                   micRequest, voiceClicks, calledApi, ignored>>

\* ApiThrows as it would be if the catch block only logged the error
ApiThrows_noFallback(id) ==
    /\ id \in apiCall
    /\ sends' = [ sends EXCEPT ![id].outcome = "throw" ]
    /\ loading' = FALSE
    /\ apiCall' = apiCall \ { id }
    /\ UNCHANGED <<appVars, termVars, apiKey, chatInput, messages, isVoiceActive,
                   audioOpen, micLive, sessionSet, simTimer, audioRefs, micRequest,
                   voiceClicks, calledApi, ignored, fallbackTimers>>

\* handleSend after await model.generateContent: the call threw; catch sets the
\* 1500 ms fallback timer and finally clears the loading flag
ApiThrows(id) ==
    /\ id \in apiCall
    /\ fallbackTimers' = Append(fallbackTimers, id)
    /\ sends' = [ sends EXCEPT ![id].outcome = "throw" ]
    /\ loading' = FALSE
    /\ apiCall' = apiCall \ { id }
    /\ UNCHANGED <<appVars, termVars, apiKey, chatInput, messages, isVoiceActive,
                   audioOpen, micLive, sessionSet, simTimer, audioRefs, micRequest,
                   voiceClicks, calledApi, ignored>>

\* FallbackTimerFires as it would be if the callback read the input state at the
\* time it runs instead of the value the handler closed over
FallbackTimerFires_stateInput ==
    /\ fallbackTimers # << >>
    /\ LET id    == Head(fallbackTimers)
           reply == getSimulationResponse(chatInput)
       IN  messages' = Append(messages, Msg(MODEL, reply, id))
    /\ fallbackTimers' = Tail(fallbackTimers)
    /\ UNCHANGED <<appVars, termVars, apiKey, chatInput, loading, isVoiceActive,
                   audioOpen, micLive, sessionSet, simTimer, apiCall, audioRefs,
                   micRequest, voiceClicks, sends, calledApi, ignored>>

\* the callback of setTimeout(.., 1500) of the catch block; input is the value the
\* handler closed over, the text of the send
FallbackTimerFires ==
    /\ fallbackTimers # << >>
    /\ LET id    == Head(fallbackTimers)
           reply == getSimulationResponse(sends[id].text)
       IN  messages' = Append(messages, Msg(MODEL, reply, id))
    /\ fallbackTimers' = Tail(fallbackTimers)
    /\ UNCHANGED <<appVars, termVars, apiKey, chatInput, loading, isVoiceActive,
                   audioOpen, micLive, sessionSet, simTimer, apiCall, audioRefs,
                   micRequest, voiceClicks, sends, calledApi, ignored>>

\* stopVoiceSession: clears the flag and closes the contexts the refs hold
\* (sessionRef is left as it is; no microphone stream is stopped)
stopVoiceSession ==
    /\ isVoiceActive' = FALSE
    /\ audioOpen' = IF audioRefs THEN audioOpen - 2 ELSE audioOpen
    /\ audioRefs' = FALSE

\* VoiceNoKey as it would be with setMessages([..]) in place of prev => [...prev, ..]
VoiceNoKey_replace ==
    /\ apiKey = DEMO_KEY
    /\ messages' =
           << Msg(MODEL, "Voice uplink requires a valid API Key configuration. Please deploy with a valid key.", 0) >>
    /\ UNCHANGED <<isVoiceActive, audioOpen, audioRefs, micRequest>>

\* VoiceNoKey as it would be without the return after the message
VoiceNoKey_noReturn ==
    /\ apiKey = DEMO_KEY
    /\ isVoiceActive' = TRUE
    /\ messages' = messages \o
           << Msg(MODEL, "Voice uplink requires a valid API Key configuration. Please deploy with a valid key.", 0),
              Msg(MODEL, "Voice uplink initialized. Listening...", 0) >>
    /\ audioOpen' = audioOpen + 2
    /\ audioRefs' = TRUE
    /\ micRequest' = micRequest + 1

\* startVoiceSession, click on the voice button: no credential
VoiceNoKey ==
    /\ apiKey = DEMO_KEY
    /\ messages' = Append(messages,
           Msg(MODEL, "Voice uplink requires a valid API Key configuration. Please deploy with a valid key.", 0))
    /\ UNCHANGED <<isVoiceActive, audioOpen, audioRefs, micRequest>>

\* startVoiceSession, click on the voice button while the session is active
VoiceToggleOff ==
    /\ apiKey # DEMO_KEY
    /\ isVoiceActive
    /\ stopVoiceSession
    /\ UNCHANGED <<messages, micRequest>>

\* startVoiceSession up to await getUserMedia: both audio contexts are created and
\* stored in the refs (overwriting what the refs held)
VoiceStart ==
    /\ apiKey # DEMO_KEY
    /\ ~isVoiceActive
    /\ isVoiceActive' = TRUE
    /\ messages' = Append(messages, Msg(MODEL, "Voice uplink initialized. Listening...", 0))
    /\ audioOpen' = audioOpen + 2
    /\ audioRefs' = TRUE
    /\ micRequest' = micRequest + 1

\* startVoiceSession when new AudioContextClass(..) throws: the catch block runs in
\* the same step and no context was created
VoiceStartThrows ==
    /\ apiKey # DEMO_KEY
    /\ ~isVoiceActive
    /\ isVoiceActive' = FALSE
    /\ messages' = messages \o
           << Msg(MODEL, "Voice uplink initialized. Listening...", 0),
              Msg(MODEL, "Voice hardware initialization failed. Check permissions.", 0) >>
    /\ UNCHANGED <<audioOpen, audioRefs, micRequest>>

\* onClick of the voice button
startVoiceSession ==
    /\ Len(sends) + voiceClicks + Len(ignored) < MaxClicks
    /\ voiceClicks' = voiceClicks + 1
    /\ \/ VoiceNoKey
       \/ VoiceToggleOff
       \/ VoiceStart
       \/ VoiceStartThrows
    /\ UNCHANGED <<appVars, termVars, apiKey, chatInput, loading, micLive, sessionSet,
                   simTimer, apiCall, fallbackTimers, sends, calledApi, ignored>>

\* startVoiceSession after await getUserMedia: the stream was granted
MicGranted ==
    /\ micRequest > 0
    /\ micRequest' = micRequest - 1
    /\ micLive' = micLive + 1
    /\ messages' = Append(messages,
           Msg(MODEL, "Voice uplink established. System ready for audio input. (Demo Mode)", 0))
    /\ sessionSet' = TRUE
    /\ UNCHANGED <<appVars, termVars, apiKey, chatInput, loading, isVoiceActive,
                   audioOpen, audioRefs, simTimer, apiCall, fallbackTimers,
                   voiceClicks, sends, calledApi, ignored>>

\* MicDenied as it would be without setIsVoiceActive(false) in the catch block
MicDenied_noFlagReset ==
    /\ micRequest > 0
    /\ micRequest' = micRequest - 1
    /\ messages' = Append(messages,
           Msg(MODEL, "Voice hardware initialization failed. Check permissions.", 0))
    /\ UNCHANGED <<appVars, termVars, apiKey, chatInput, loading, micLive, sessionSet,
                   audioOpen, audioRefs, simTimer, apiCall, fallbackTimers,
                   voiceClicks, sends, calledApi, ignored, isVoiceActive>>

\* startVoiceSession after await getUserMedia: the request was rejected; the catch
\* block clears the flag and reports (the contexts stay open and in the refs)
MicDenied ==
    /\ micRequest > 0
    /\ micRequest' = micRequest - 1
    /\ isVoiceActive' = FALSE
    /\ messages' = Append(messages,
           Msg(MODEL, "Voice hardware initialization failed. Check permissions.", 0))
    /\ UNCHANGED <<appVars, termVars, apiKey, chatInput, loading, micLive, sessionSet,
                   audioOpen, audioRefs, simTimer, apiCall, fallbackTimers,
                   voiceClicks, sends, calledApi, ignored>>

----------------------------------------------------------------------------
(* Timers, intervals and animation loops *)

\* the timers and loops started by the mount effects of App (boot timeout, session
\* clock), SystemFooter (log ticker) and NeuralBackground (particle animation)
AppTimers == { "bootTimer", "sessionClock", "footerTicker", "particles" }

\* App: the callback of setTimeout(() => setIsLoaded(true), 1200)
BootTimerFires ==
    /\ "bootTimer" \in appTimers
    /\ appTimers' = appTimers \ { "bootTimer" }
    /\ lastCallback' = "bootTimer"
    /\ UNCHANGED <<store, activeView, searchQuery, searchResults, lastEvent,
                   appMounted, revealDelay, revealIntervals, termVars, chatVars>>

\* the callback of one of the loops: setInterval(.., 1000) of the session clock,
\* setInterval(.., 3000) of the log ticker, requestAnimationFrame(draw)
LoopCallback(timer) ==
    /\ timer \in appTimers \ { "bootTimer" }
    /\ lastCallback' = timer
    /\ UNCHANGED <<store, activeView, searchQuery, searchResults, lastEvent,
                   appMounted, appTimers, revealDelay, revealIntervals, termVars,
                   chatVars>>

\* RevealText: the callback of setTimeout(.., delay) starts the typing loop
RevealDelayFires ==
    /\ revealDelay
    /\ Len(revealIntervals) < MaxReveals
    /\ revealDelay' = FALSE
    /\ revealIntervals' = Append(revealIntervals, [ i |-> 0, mounted |-> TRUE ])
    /\ lastCallback' = "revealDelay"
    /\ UNCHANGED <<store, activeView, searchQuery, searchResults, lastEvent,
                   appMounted, appTimers, termVars, chatVars>>

\* RevealText: the callback of setInterval(.., 30): setVisibleText(text.slice(0,
\* i + 1)); i++; if (i > text.length) clearInterval(interval)
RevealIntervalTick(k) ==
    /\ k \in 1..Len(revealIntervals)
    /\ LET i == revealIntervals[k].i + 1
       IN  revealIntervals' =
               IF i > Len(RevealQuote)
               THEN SubSeq(revealIntervals, 1, k - 1)
                        \o SubSeq(revealIntervals, k + 1, Len(revealIntervals))
               ELSE [ revealIntervals EXCEPT ![k].i = i ]
    /\ lastCallback' = "revealInterval"
    /\ UNCHANGED <<store, activeView, searchQuery, searchResults, lastEvent,
                   appMounted, appTimers, revealDelay, termVars, chatVars>>

\* the page is torn down: the cleanups of the mount effects of App, SystemFooter,
\* NeuralBackground and NeuralChatWidget run, and the shown view is unmounted
unmountApp ==
    /\ appMounted
    /\ appMounted' = FALSE
    /\ appTimers' = { }
    /\ IF activeView = PROFILE
       THEN RevealTextUnmount
       ELSE UNCHANGED <<revealDelay, revealIntervals>>
    /\ history' = << >>
    /\ termInput' = ""
    /\ stopVoiceSession
    /\ UNCHANGED <<store, activeView, searchQuery, searchResults, lastEvent,
                   lastCallback, apiKey, chatInput, loading, messages, micLive,
                   sessionSet, simTimer, apiCall, fallbackTimers, micRequest,
                   voiceClicks, sends, calledApi, ignored>>

----------------------------------------------------------------------------
(* Specifications *)

\* the App after construction, with TerminalView not mounted
AppInitOf(st) ==
    /\ store = st
    /\ activeView = PROFILE
    /\ searchQuery = ""
    /\ searchResults = [ projects |-> << >>, education |-> << >>, skills |-> << >> ]
    /\ lastEvent = [ op |-> "mount", arg |-> PROFILE, from |-> PROFILE ]
    /\ appMounted = TRUE
    /\ appTimers = AppTimers
    /\ revealDelay = TRUE
    /\ revealIntervals = << >>
    /\ lastCallback = "none"
    /\ history = << >>
    /\ termInput = ""

\* NeuralChatWidget after construction, for the credential of the build
ChatInitOf(env) ==
    /\ apiKey = ApiKeyOf(env)
    /\ chatInput = ""
    /\ loading = FALSE
    /\ messages = << Greeting >>
    /\ isVoiceActive = FALSE
    /\ audioOpen = 0
    /\ micLive = 0
    /\ sessionSet = FALSE
    /\ simTimer = << >>
    /\ apiCall = { }
    /\ fallbackTimers = << >>
    /\ audioRefs = FALSE
    /\ micRequest = 0
    /\ voiceClicks = 0
    /\ sends = << >>
    /\ calledApi = { }
    /\ ignored = << >>

\* The App and the chat widget share no state, so each is checked on its own:
\* Spec runs the App (search, navigation, terminal) beside an idle chat widget,
\* SearchSpec runs the App over each store of Stores, TermSpec runs the terminal
\* with every command line, and ChatSpec runs the chat widget beside an idle App.
\* ReplySpec runs the offline responder over ReplyTexts, ChatLiveSpec is ChatSpec
\* with fair timers and a fair endpoint, and TimerSpec runs the timers of the
\* views beside sidebar clicks and the teardown of the page.

Init == AppInitOf(RepoStore) /\ ChatInitOf("")

SearchInit == (\E st \in Stores : AppInitOf(st)) /\ ChatInitOf("")

ChatInit == AppInitOf(RepoStore) /\ (\E env \in EnvValues : ChatInitOf(env))

\* the App: search bar, sidebar, no-results screen and terminal
Next ==
    \/ \E query \in SearchQueries : handleSearch(query)
    \/ \E view \in NavTargets : handleNavClick(view)
    \/ ReturnToProfile
    \/ \E line \in FewTermLines : TermType(line)
    \/ handleCommand

\* the terminal, reached and left through the sidebar
TermNext ==
    \/ \E view \in { PROFILE, TERMINAL } : handleNavClick(view)
    \/ \E line \in TermLines : TermType(line)
    \/ handleCommand

\* the chat widget
ChatNext ==
    \/ \E text \in ChatTexts : ChatType(text)
    \/ handleSend
    \/ SimTimerFires
    \/ \E id \in apiCall, text \in ApiReplies : ApiReturns(id, text)
    \/ \E id \in apiCall : ApiThrows(id)
    \/ FallbackTimerFires
    \/ startVoiceSession
    \/ MicGranted
    \/ MicDenied

\* the chat widget of a build without credential, with the texts of ReplyTexts
ReplyNext ==
    \/ \E text \in ReplyTexts : ChatType(text)
    \/ handleSend
    \/ SimTimerFires

\* the views and their timers: sidebar clicks while the App is mounted, the
\* teardown of the page, and the timer callbacks
TimerNext ==
    \/ \E view \in NavTargets : appMounted /\ handleNavClick(view)
    \/ unmountApp
    \/ BootTimerFires
    \/ \E timer \in AppTimers : LoopCallback(timer)
    \/ RevealDelayFires
    \/ \E k \in 1..MaxReveals : RevealIntervalTick(k)

Spec == Init /\ [][Next]_vars

SearchSpec == SearchInit /\ [][Next]_vars

TermSpec == Init /\ [][TermNext]_vars

ChatSpec == ChatInit /\ [][ChatNext]_vars

ReplySpec == Init /\ [][ReplyNext]_vars

TimerSpec == Init /\ [][TimerNext]_vars

\* a due timer callback runs, the pending generateContent call settles: the steps
\* of SimTimerFires, of FallbackTimerFires and of ApiReturns or ApiThrows, told by
\* the queue they take their send from
SimTimerRuns == simTimer # << >> /\ simTimer' = Tail(simTimer)

FallbackTimerRuns == fallbackTimers # << >> /\ fallbackTimers' = Tail(fallbackTimers)

ApiCompletes == \E id \in apiCall : apiCall' = apiCall \ { id }

\* the chat widget on an event loop that runs every due timer callback and with an
\* endpoint whose calls all settle
ChatLiveSpec ==
    /\ ChatInit
    /\ [][ChatNext]_vars
    /\ WF_simTimer(SimTimerRuns)
    /\ WF_fallbackTimers(FallbackTimerRuns)
    /\ WF_apiCall(ApiCompletes)

----------------------------------------------------------------------------
(* Properties: search and navigation *)

\* the searchable fields of an entity
ProjectFields(p) == { p.title, p.description } \cup { p.tech[k] : k \in 1..Len(p.tech) }
EducationFields(e) ==
    { e.degree, e.school }
    \cup ( IF "details" \in DOMAIN e THEN { e.details[k] : k \in 1..Len(e.details) } ELSE { } )
SkillFields(sk) == { sk.subject }

\* the lowercased query is a substring of one of the lowercased fields
FieldRule(fields, query) ==
    \E f \in fields : includes(toLowerCase(f), toLowerCase(query))

\* res holds exactly the elements of list at the positions of kept, in list order
IsOrderedSelection(res, list, kept) ==
    /\ Len(res) = Cardinality(kept)
    /\ \A j \in 1..Len(res) :
           res[j] = list[CHOOSE i \in kept : Cardinality({ k \in kept : k < i }) = j - 1]

\* C1: whenever a search was performed for the current query (the query is not
\* blank), each of the three result sequences is the order-preserving filter of
\* the store list by the rule "the lowercased query is a substring of a lowercased
\* searchable field": title, description, tech tags; degree, school, details;
\* subject.  Type, year, score, certificates and interests contribute nothing.
C1_SearchIsFieldFilter ==
    trim(searchQuery) # "" =>
        /\ IsOrderedSelection(searchResults.projects, store.projects,
               { i \in 1..Len(store.projects) :
                     FieldRule(ProjectFields(store.projects[i]), searchQuery) })
        /\ IsOrderedSelection(searchResults.education, store.education,
               { i \in 1..Len(store.education) :
                     FieldRule(EducationFields(store.education[i]), searchQuery) })
        /\ IsOrderedSelection(searchResults.skills, store.skills,
               { i \in 1..Len(store.skills) :
                     FieldRule(SkillFields(store.skills[i]), searchQuery) })

\* C1 witness: "alpha" was searched in the sample store; both projects match (title,
\* description), the education entry without details matches on its degree, the
\* other entry does not, and the second skill matches
C1_Witness ==
    /\ store = SampleStore
    /\ activeView = SEARCH
    /\ searchQuery = "alpha"
    /\ searchResults.projects = SampleStore.projects
    /\ searchResults.education = << SampleStore.education[1] >>
    /\ searchResults.skills = << SampleStore.skills[2] >>

\* C2 (as claimed): in every reachable state the search query is non-empty if and
\* only if the active view is Search
C2_QueryNonEmptyIffSearch ==
    (searchQuery # "") <=> (activeView = SEARCH)

----------------------------------------------------------------------------
(* Properties: chat widget *)

\* the ids of the accepted sends
SendIds == 1..Len(sends)

\* the positions of the assistant messages appended for a send
RepliesTo(id) ==
    { i \in 1..Len(messages) : messages[i].role = MODEL /\ messages[i].send = id }

\* the accepted sends whose assistant reply has not been appended yet
Outstanding == { id \in SendIds : RepliesTo(id) = { } }

\* C3 (as claimed): at most one assistant reply is outstanding at any time
C3_SingleFlight ==
    Cardinality(Outstanding) <= 1

\* C4: when the endpoint call of a send threw, the assistant message appended for
\* that send carries what the offline responder returns for the text of the user
\* message of that send
C4_FailureFallsBackToOffline ==
    \A id \in SendIds :
        sends[id].outcome = "throw" =>
            \A i \in RepliesTo(id), u \in 1..Len(messages) :
                (messages[u].role = USER /\ messages[u].send = id)
                    => messages[i].text = getSimulationResponse(messages[u].text)

\* C4 witness: the call for "What are your skills?" threw and the fallback timer has
\* appended the skills reply for it
C4_Witness ==
    \E id \in SendIds :
        /\ sends[id].outcome = "throw"
        /\ sends[id].text = "What are your skills?"
        /\ \E i \in RepliesTo(id) : messages[i].text = SkillsReply

C6_LoadingWhileOutstanding ==
    Outstanding # { } => loading

\* C7: every step leaves the earlier message list as a prefix of the new one, and
\* every message a step appends has the assistant role, except the user message
\* appended by the step that accepts a send
C7_MessagesAppendOnly ==
    [][ /\ Len(messages') >= Len(messages)
        /\ SubSeq(messages', 1, Len(messages)) = messages
        /\ \A i \in (Len(messages) + 1)..Len(messages') :
               \/ messages'[i].role = MODEL
               \/ /\ Len(sends') = Len(sends) + 1
                  /\ messages'[i] = Msg(USER, chatInput, Len(sends'))
      ]_vars

\* C7 witness: the history holds the greeting, a user message, its reply and a
\* message of the voice button, in some order after the greeting
C7_Witness ==
    /\ Len(messages) >= 4
    /\ messages[1] = Greeting
    /\ \E i \in 2..Len(messages) : messages[i].role = USER
    /\ \E i \in 2..Len(messages) : messages[i].role = MODEL /\ messages[i].send > 0
    /\ \E i \in 2..Len(messages) : messages[i].role = MODEL /\ messages[i].send = 0

\* C8: in offline mode, a send whose text contains "project" in any letter case
\* is answered by the projects summary only, whatever other keywords it contains,
\* and generateContent is not called for it
C8_OfflineProjectReply ==
    apiKey = "demo_key" =>
        \A id \in SendIds :
            includes(toLowerCase(sends[id].text), "project") =>
                /\ id \notin calledApi
                /\ apiCall = { }
                /\ \A i \in RepliesTo(id) : messages[i].text = ProjectsReply

\* C8 witness: offline, "Email the PROJECT skills" has been answered
C8_Witness ==
    /\ apiKey = "demo_key"
    /\ \E id \in SendIds :
           /\ sends[id].text = "Email the PROJECT skills"
           /\ \E i \in RepliesTo(id) : messages[i].text = ProjectsReply

\* the scenario of C9: no credential, and the only event since the initial history
\* was the send of "What are your skills?", which has been answered
C9_ScenarioDone ==
    /\ apiKey = "demo_key"
    /\ voiceClicks = 0
    /\ Len(sends) = 1
    /\ sends[1].text = "What are your skills?"
    /\ sends[1].outcome = "offline"

\* C9 (as claimed): the canned skills reply is the second chat message, directly
\* after the greeting
C9_SkillsReplyIsSecond ==
    C9_ScenarioDone =>
        /\ messages[1] = Greeting
        /\ messages[2].role = MODEL
        /\ messages[2].text = SkillsReply

\* C9 (amended): the history is the greeting, the user's message and the canned
\* skills reply with the assistant role, in this order: the reply is the third
\* message
C9_SkillsReplyIsThird ==
    C9_ScenarioDone =>
        /\ Len(messages) = 3
        /\ messages[1] = Greeting
        /\ messages[2].role = USER /\ messages[2].text = "What are your skills?"
        /\ messages[3].role = MODEL
        /\ messages[3].text =
               "Core competencies include Python (AI), React, Node.js, and Transformer models (BERT, RoBERTa)."

\* C9 witness: the scenario has run
C9_Witness ==
    C9_ScenarioDone /\ Len(messages) = 3

----------------------------------------------------------------------------
(* Properties: terminal *)

\* C10: an Enter on a line that is clear in any letter case, with or without
\* surrounding whitespace, leaves the history with exactly one line, the reset
\* marker, whatever the history was
C10_ClearResetsHistory ==
    [][ (handleCommand /\ toLowerCase(trim(termInput)) = "clear")
            => history' = << "> CONSOLE CLEARED" >>
      ]_vars

\* C10 witness: the terminal shows the reset marker alone, which only a clear
\* leaves behind
C10_Witness ==
    /\ activeView = TERMINAL
    /\ history = << "> CONSOLE CLEARED" >>
    /\ termInput = ""

\* the command handleCommand dispatches on
NormalizedInput == toLowerCase(trim(termInput))

\* the command table of handleCommand
KnownCommands == { "help", "ls", "whoami", "skills", "contact", "clear" }

\* C11 (as claimed): an Enter on ls makes the history exactly len(PROJECTS) + 1
\* lines longer
C11_LsAppendsProjectsPlusOne ==
    [][ (handleCommand /\ NormalizedInput = "ls")
            => Len(history') = Len(history) + Len(store.projects) + 1
      ]_vars

\* C11 (amended): an Enter on ls makes the history exactly len(PROJECTS) + 2 lines
\* longer: the echo of the input, the header, and one line per project
C11_LsAppendsProjectsPlusTwo ==
    [][ (handleCommand /\ NormalizedInput = "ls")
            => /\ Len(history') = Len(history) + Len(store.projects) + 2
               /\ SubSeq(history', 1, Len(history)) = history
      ]_vars

\* C11 witness: ls was executed on the initial history; the scrollback ends with
\* the echo, the header and the three project lines
C11_Witness ==
    /\ activeView = TERMINAL
    /\ Len(history) = Len(InitialHistory) + Len(PROJECTS) + 2
    /\ history[Len(InitialHistory) + 1] = "> ls"
    /\ history[Len(InitialHistory) + 2] = "PROJECTS DIRECTORY:"
    /\ history[Len(history)] = "  [2] Cross-Platform Component Library (Frontend Infrastructure)"

\* C12: an Enter on a line whose normalized form is no command of the table (the
\* empty line included) appends exactly two lines, the echo of the input and one
\* error line that names the normalized command and points to help, and leaves the
\* earlier lines as they were
C12_UnknownAppendsEchoAndError ==
    [][ (handleCommand /\ NormalizedInput \notin KnownCommands)
            => /\ Len(history') = Len(history) + 2
               /\ SubSeq(history', 1, Len(history)) = history
               /\ history'[Len(history) + 1] = "> " \o termInput
               /\ LET err == history'[Len(history) + 2]
                  IN  /\ SubSeq(err, 1, 6) = "ERROR:"
                      /\ includes(err, "\"" \o NormalizedInput \o "\"")
                      /\ includes(err, "Type \"help\"")
      ]_vars

\* C12 witness: the empty line and frobnicate have both been executed
C12_Witness ==
    /\ activeView = TERMINAL
    /\ \E i \in 1..(Len(history) - 1) :
           /\ history[i] = "> "
           /\ history[i + 1] = "ERROR: Command \"\" not recognized. Type \"help\"."
    /\ \E i \in 1..(Len(history) - 1) :
           /\ history[i] = "> frobnicate"
           /\ history[i + 1] = "ERROR: Command \"frobnicate\" not recognized. Type \"help\"."

\* C13 (as claimed): after every Enter, clear included, the history contains the
\* echo of the input as typed
C13_EveryInvocationEchoes ==
    [][ handleCommand
            => \E i \in 1..Len(history') : history'[i] = "> " \o termInput
      ]_vars

\* C13 (amended): after every Enter on a line other than clear, the first line
\* after the earlier history is the echo of the input as typed, and the output
\* lines of the invocation follow it; clear leaves the reset marker alone, without
\* an echo
C13_NonClearInvocationEchoesFirst ==
    [][ handleCommand
            => IF NormalizedInput = "clear"
               THEN history' = << "> CONSOLE CLEARED" >>
               ELSE /\ Len(history') > Len(history) + 1
                    /\ SubSeq(history', 1, Len(history)) = history
                    /\ history'[Len(history) + 1] = "> " \o termInput
      ]_vars

\* C13 witness: " Ls" was executed; its echo keeps the casing and the blank, and
\* the output follows it
C13_Witness ==
    /\ activeView = TERMINAL
    /\ \E i \in 1..(Len(history) - 1) :
           /\ history[i] = ">  Ls"
           /\ history[i + 1] = "PROJECTS DIRECTORY:"

C14_NavClickClearsQuery ==
    [][ \A view \in NavTargets :
            (activeView = SEARCH /\ searchQuery # "" /\ handleNavClick(view))
                => (searchQuery' = "" /\ activeView' = view)
      ]_vars

\* C14 witness: the Terminal button was clicked during a search
C14_Witness ==
    /\ lastEvent = [ op |-> "handleNavClick", arg |-> TERMINAL, from |-> SEARCH ]
    /\ activeView = TERMINAL
    /\ searchQuery = ""

\* C15 (as claimed): a search-input event with a non-empty new query leaves the
\* active view equal to Search
C15_NonEmptyQueryForcesSearch ==
    [][ \A query \in SearchQueries :
            (handleSearch(query) /\ query # "") => activeView' = SEARCH
      ]_vars

\* C15 (amended): a search-input event with a non-blank new query leaves the
\* active view equal to Search; one with a non-empty blank query never does
C15_NonBlankQueryForcesSearch ==
    [][ \A query \in SearchQueries :
            (handleSearch(query) /\ query # "")
                => (activeView' = SEARCH <=> trim(query) # "")
      ]_vars

\* C15 witness: a non-blank query was typed while the Terminal view was active
C15_Witness ==
    /\ lastEvent = [ op |-> "handleSearch", arg |-> " React", from |-> TERMINAL ]
    /\ activeView = SEARCH
    /\ searchQuery = " React"

\* C16 (as claimed): a search-input event that changes the query to the empty
\* string leaves the active view equal to Profile
C16_EmptyQueryReturnsToProfile ==
    [][ handleSearch("") => activeView' = PROFILE ]_vars

\* C16 (amended): a search-input event that changes the query to the empty string
\* leaves the active view equal to Profile when the view was Search, and leaves
\* the view as it was otherwise
C16_EmptyQueryLeavesSearchOnly ==
    [][ handleSearch("")
            => activeView' = IF activeView = SEARCH THEN PROFILE ELSE activeView
      ]_vars

\* C16 witness: the query was cleared through the input during a search
C16_Witness ==
    /\ lastEvent = [ op |-> "handleSearch", arg |-> "", from |-> SEARCH ]
    /\ activeView = PROFILE
    /\ searchQuery = ""

\* C17: whenever the active view is Search, the query is non-blank, the stored
\* result set is the search result for the current query, and the Search view
\* does not show its no-query placeholder
C17_SearchViewHasCurrentResults ==
    activeView = SEARCH
        => /\ trim(searchQuery) # ""
           /\ searchResults = SearchStore(searchQuery, store)
           /\ SearchResultsView(searchResults, searchQuery) # "placeholder"

\* C17 witness: the Search view shows the no-results screen for a query that
\* matches nothing
C17_Witness ==
    /\ activeView = SEARCH
    /\ searchQuery = "zzz"
    /\ searchResults = [ projects |-> << >>, education |-> << >>, skills |-> << >> ]
    /\ SearchResultsView(searchResults, searchQuery) = "noResults"

\* C18 (as claimed): after every event that changes the query, the stored result
\* set is the one for the new query (for a blank query: that, or the empty result
\* set)
C18_ResultsRecomputedOnEveryChange ==
    [][ searchQuery' # searchQuery
            => \/ searchResults' = SearchStore(searchQuery', store)
               \/ /\ trim(searchQuery') = ""
                  /\ searchResults' = [ projects |-> << >>, education |-> << >>,
                                        skills |-> << >> ]
      ]_vars

\* C18 (amended): after an event that changes the query to a non-blank value the
\* stored result set is the one for the new query; an event that changes it to a
\* blank value (typing, or the clear of a nav click) leaves the stored result set
\* as it was
C18_ResultsRecomputedOnNonBlankChange ==
    [][ searchQuery' # searchQuery
            => searchResults' = IF trim(searchQuery') = ""
                                THEN searchResults
                                ELSE SearchStore(searchQuery', store)
      ]_vars

\* C18 witness: the query was cleared through the input during a search that had
\* matched a project, and that result set is still stored
C18_Witness ==
    /\ lastEvent = [ op |-> "handleSearch", arg |-> "", from |-> SEARCH ]
    /\ searchQuery = ""
    /\ Len(searchResults.projects) > 0

\* C20: a click on the voice button with the placeholder key appends exactly one
\* assistant message, the explanation, creates no audio context, requests no
\* microphone access, and leaves the voice-active flag false
C20_VoiceWithoutKeyShortCircuits ==
    [][ (startVoiceSession /\ apiKey = DEMO_KEY)
            => /\ Len(messages') = Len(messages) + 1
               /\ SubSeq(messages', 1, Len(messages)) = messages
               /\ messages'[Len(messages')] =
                      Msg(MODEL, "Voice uplink requires a valid API Key configuration. Please deploy with a valid key.", 0)
               /\ audioOpen' = audioOpen
               /\ micRequest' = micRequest
               /\ micLive' = micLive
               /\ ~isVoiceActive /\ ~isVoiceActive'
      ]_vars

\* C20 witness: the voice button was clicked once with the placeholder key
C20_Witness ==
    /\ apiKey = DEMO_KEY
    /\ voiceClicks = 1
    /\ Len(messages) = 2
    /\ messages[2].role = MODEL
    /\ messages[2].text = "Voice uplink requires a valid API Key configuration. Please deploy with a valid key."
    /\ ~isVoiceActive
    /\ audioOpen = 0
    /\ micRequest = 0
    /\ micLive = 0

\* the number of messages of a list that carry a text
CountText(msgs, text) ==
    Cardinality({ i \in 1..Len(msgs) : msgs[i].text = text })

VoiceInitialized == "Voice uplink initialized. Listening..."
VoiceEstablished == "Voice uplink established. System ready for audio input. (Demo Mode)"
VoiceFailed      == "Voice hardware initialization failed. Check permissions."

\* C21 (as claimed): a start of the voice session with a credential that fails
\* (the audio initialisation throws, or the microphone is denied) leaves the flag
\* false and has added the failure message alone: every 'initialized' message of
\* the history belongs to an attempt that is established or still pending
C21_FailedStartAddsOneMessage ==
    [][ (VoiceStartThrows \/ MicDenied)
            => /\ ~isVoiceActive'
               /\ messages'[Len(messages')].text = VoiceFailed
               /\ CountText(messages', VoiceInitialized)
                      = CountText(messages', VoiceEstablished) + micRequest'
      ]_vars

\* C21 (amended): a failed start leaves the flag false and has added two messages,
\* the 'initialized' message at the start of the attempt and the failure message
\* at its end: the 'initialized' messages of the history are those of the
\* established, the failed and the pending attempts
C21_FailedStartAddsTwoMessages ==
    [][ (VoiceStartThrows \/ MicDenied)
            => /\ ~isVoiceActive'
               /\ Len(messages') > Len(messages)
               /\ messages'[Len(messages')] = Msg(MODEL, VoiceFailed, 0)
               /\ CountText(messages', VoiceInitialized)
                      = CountText(messages', VoiceEstablished)
                        + CountText(messages', VoiceFailed) + micRequest'
      ]_vars

\* C21 witness: one start with a credential, microphone denied
C21_Witness ==
    /\ apiKey # DEMO_KEY
    /\ voiceClicks = 1
    /\ micRequest = 0
    /\ audioOpen = 2
    /\ ~isVoiceActive
    /\ messages = << Greeting, Msg(MODEL, VoiceInitialized, 0), Msg(MODEL, VoiceFailed, 0) >>

\* C24 (as claimed): whenever the voice session is not active, no audio context
\* created by it is open and no microphone stream obtained by it is live
C24_DevicesReleasedWhenInactive ==
    ~isVoiceActive => (audioOpen = 0 /\ micLive = 0)

\* C26: the output lines an Enter appends after the echo are those of the trimmed,
\* lowercased line: a line that normalizes to a command of the table gets that
\* command's output (clear: the reset marker alone), any other line the error line
\* for its normalized form
C26_DispatchOnNormalizedLine ==
    [][ handleCommand
            => LET out == SubSeq(history', Len(history) + 2, Len(history'))
               IN  IF NormalizedInput = "clear"
                   THEN history' = << "> CONSOLE CLEARED" >>
                   ELSE /\ history'[Len(history) + 1] = "> " \o termInput
                        /\ out = CommandOutput(NormalizedInput, store)
                        /\ NormalizedInput = "ls" => out = LsOutput(store)
                        /\ NormalizedInput \notin KnownCommands
                               => out = ErrorOutput(NormalizedInput)
      ]_vars

\* C26 witness: " Ls" was executed and listed the projects, as ls does
C26_Witness ==
    /\ activeView = TERMINAL
    /\ Len(history) = Len(InitialHistory) + 1 + Len(LsOutput(store))
    /\ history[Len(InitialHistory) + 1] = ">  Ls"
    /\ SubSeq(history, Len(InitialHistory) + 2, Len(history)) = CommandOutput("ls", store)

\* the position of the first assistant message appended for a send
FirstReply(id) == CHOOSE i \in RepliesTo(id) : \A j \in RepliesTo(id) : i <= j

\* C27 (as claimed): for any two accepted sends a before b that both have their
\* assistant message, the message for a stands before the message for b
C27_RepliesInSendOrder ==
    \A a \in SendIds : \A b \in SendIds :
        (a < b /\ RepliesTo(a) # { } /\ RepliesTo(b) # { })
            => FirstReply(a) < FirstReply(b)

\* C28 (as claimed): the resolution of the microphone request appends the
\* 'established' message and sets the session handle only while the voice session
\* is active
C28_EstablishedOnlyWhileActive ==
    [][ MicGranted => isVoiceActive ]_vars

\* C29: whenever the Terminal view becomes the active view, its history is the
\* three initial lines and its input is empty
C29_TerminalStartsFresh ==
    [][ (activeView # TERMINAL /\ activeView' = TERMINAL)
            => (history' = InitialHistory /\ termInput' = "")
      ]_vars

\* C29 witness: the Terminal view was entered from the Search view
C29_Witness ==
    /\ lastEvent = [ op |-> "handleNavClick", arg |-> TERMINAL, from |-> SEARCH ]
    /\ activeView = TERMINAL
    /\ history = InitialHistory
    /\ Len(history) = 3
    /\ termInput = ""

\* C30: a send attempt with an empty or whitespace-only input, or made while the
\* loading flag is true, leaves the message history, the input text and the
\* loading flag unchanged and starts no endpoint call and no timer
C30_IgnoredSendChangesNothing ==
    [][ (handleSend /\ (trim(chatInput) = "" \/ loading))
            => UNCHANGED << messages, chatInput, loading, apiCall, calledApi,
                            simTimer, fallbackTimers, sends >>
      ]_vars

\* C30 witness: one attempt was ignored for its whitespace-only input and one,
\* with a text in the input, because a reply was being awaited
C30_Witness ==
    /\ \E i \in 1..Len(ignored) :
           ignored[i].input = "  " /\ ~ignored[i].loading
    /\ \E i \in 1..Len(ignored) :
           trim(ignored[i].input) # "" /\ ignored[i].loading
    /\ Len(sends) = 1
    /\ Len(messages) <= 3

\* the keyword groups of the offline responder in their priority order, each with
\* its reply
KeywordGroups ==
    << [ words |-> { "project" },          reply |-> ProjectsReply ],
       [ words |-> { "skill", "tech" },    reply |-> SkillsReply ],
       [ words |-> { "contact", "email" }, reply |-> ContactReply ],
       [ words |-> { "hello", "hi" },      reply |-> HelloReply ] >>

\* the groups of which a keyword occurs in the lowercased text
MatchingGroups(text) ==
    { g \in 1..Len(KeywordGroups) :
          \E w \in KeywordGroups[g].words : includes(toLowerCase(text), w) }

\* the reply of the first matching group, the generic fallback when none matches
PriorityReply(text) ==
    IF MatchingGroups(text) = { }
    THEN OfflineReply
    ELSE LET g == CHOOSE h \in MatchingGroups(text) :
                      \A k \in MatchingGroups(text) : h <= k
         IN  KeywordGroups[g].reply

\* PriorityReply of the texts of ReplyTexts, computed once
PriorityReplyOf == [ text \in ReplyTexts |-> PriorityReply(text) ]

\* C25: every assistant message the offline responder produced for a send carries
\* the reply of the first keyword group, in the priority order, of which a keyword
\* occurs in the lowercased text of the send, or the generic fallback when no
\* keyword occurs; sends with the same text get the same reply
C25_OfflineReplyByPriority ==
    /\ \A id \in SendIds : \A i \in RepliesTo(id) :
           messages[i].text = PriorityReplyOf[sends[id].text]
    /\ \A a \in SendIds : \A b \in SendIds :
           \A i \in RepliesTo(a) : \A j \in RepliesTo(b) :
               sends[a].text = sends[b].text => messages[i].text = messages[j].text

\* C25 witness: a text with keywords of the second and third group got the reply
\* of the second, a text with a keyword inside another word the reply of the
\* fourth, and a text without keyword the fallback
C25_Witness ==
    /\ Len(sends) = 3
    /\ apiKey = DEMO_KEY
    /\ \E id \in SendIds : /\ sends[id].text = "Your Tech stack and email"
                           /\ \E i \in RepliesTo(id) : messages[i].text = SkillsReply
    /\ \E id \in SendIds : /\ sends[id].text = "Which one?"
                           /\ \E i \in RepliesTo(id) : messages[i].text = HelloReply
    /\ \E id \in SendIds : /\ sends[id].text = "What is the weather?"
                           /\ \E i \in RepliesTo(id) : messages[i].text = OfflineReply

\* C22: under fairness of the timers and of the endpoint's completion, every
\* accepted send is eventually followed by an assistant message appended for it, no
\* send ever has more than one, and whenever the loading flag is true it is
\* eventually false again. (Sends and messages are never removed, so "accepted
\* leads to answered" is stated as: again and again, the send is not accepted yet
\* or has its one reply.)
C22_EverySendGetsOneReply ==
    /\ \A id \in 1..MaxClicks :
           []<>(id \in SendIds => Cardinality(RepliesTo(id)) = 1)
    /\ [](\A id \in SendIds : Cardinality(RepliesTo(id)) <= 1)
    /\ []<>(~loading)

\* C22 witness: a send whose endpoint call threw and a later send the endpoint
\* answered both have their one reply, and the widget accepts a send again
C22_Witness ==
    /\ Len(sends) = 2
    /\ sends[1].outcome = "throw"
    /\ sends[2].outcome = "ok"
    /\ Cardinality(RepliesTo(1)) = 1
    /\ Cardinality(RepliesTo(2)) = 1
    /\ ~loading
    /\ fallbackTimers = << >>

\* C23 (as claimed): every timer callback that runs belongs to a component that
\* is mounted: the App for the boot timer, the session clock, the log ticker and
\* the particle animation, the RevealText shown in the Profile view for its start
\* delay, and the instance that started it for a typing loop
C23_NoCallbackAfterUnmount ==
    [][ /\ (BootTimerFires \/ \E timer \in AppTimers : LoopCallback(timer))
            => appMounted
        /\ RevealDelayFires => (appMounted /\ activeView = PROFILE)
        /\ \A k \in 1..Len(revealIntervals) :
               RevealIntervalTick(k) => revealIntervals[k].mounted
      ]_vars

====
